---- MODULE Spec2Model ----
(***************************************************************************)
(* A model of src/libsystemd-network/sd-radv.c: the configuration state    *)
(* of one IPv6 Router Advertisement session (sd_radv), its prefix list     *)
(* and the reference-counted prefix options (sd_radv_prefix).              *)
(*                                                                         *)
(* Every public function of the file is one action; the action is the      *)
(* whole call, from its assert_return checks to its return.  The variable  *)
(* op records the call that was made last and ret what it returned.  A     *)
(* NULL session pointer never reaches any state of the session and is not  *)
(* modelled; callers only use handles they hold a reference for.           *)
(***************************************************************************)
EXTENDS Integers, Sequences, FiniteSets, TLC

VARIABLES ra,          \* the sd_radv object (n_ref = 0: freed)
          pfx,         \* the sd_radv_prefix objects (n_ref = 0: freed / unallocated)
          held,        \* per prefix, the references callers hold on it
          event_n_ref, \* per sd_event, the references taken on it through this file
          op,          \* the last call: its name, its arguments, and the members
                       \* it passed to sd_radv_prefix_unref
          ret          \* what the last call returned

vars == <<ra, pfx, held, event_n_ref, op, ret>>

-----------------------------------------------------------------------------
(* Bounds of the model. *)

\* reference counts are capped: ref() is not called above this count
MaxRef == 2

-----------------------------------------------------------------------------
(* Program constants. *)

EINVAL == 22
EBUSY == 16
EEXIST == 17
ETIME == 62

SD_RADV_STATE_IDLE == 0
SD_RADV_STATE_ADVERTISING == 1

ND_RA_FLAG_MANAGED == 128
ND_RA_FLAG_OTHER == 64

SD_NDISC_PREFERENCE_LOW == 3
SD_NDISC_PREFERENCE_MEDIUM == 0
SD_NDISC_PREFERENCE_HIGH == 1

\* the shift and the width mask of the preference field, (0x3 << 3)
PREFERENCE_SHIFT == 8
PREFERENCE_MASK == 3

MIN_MTU == 1280

\* a NULL pointer, for handles that are numbered from 1
NULL == 0

-----------------------------------------------------------------------------
(* The arguments the callers pass. *)

\* sd_event handles: 1 is an event the caller supplies, 2 the default event
CallerEvent == 1
DefaultEvent == 2
Events == {CallerEvent, DefaultEvent}
EventArgs == {NULL, CallerEvent}
Priorities == {0, 5}

IfIndexes == {-2, -1, 0, 1}

\* struct ether_addr: six bytes; <<>> stands for a NULL mac_addr pointer
ZeroMac == <<0, 0, 0, 0, 0, 0>>
Mac1 == <<0, 17, 34, 51, 68, 85>>
NullMac == <<>>
MacArgs == {NullMac, Mac1}

Mtus == {1279, 1280, 1500}
HopLimits == {0, 64}
Lifetimes == {0, 1800}
Bools == {0, 1}
\* 2 is the reserved value of the 2-bit preference field
Preferences == {0, 1, 2, 3}

-----------------------------------------------------------------------------
(* Bit operations on the flags byte. *)

\* whether the single-bit mask flag is set in v
HasFlag(v, flag) == (v \div flag) % 2 = 1

\* SET_FLAG(v, flag, b): v | flag when b is non-zero, v & ~flag otherwise
SET_FLAG(v, flag, b) ==
    IF b # 0
    THEN (IF HasFlag(v, flag) THEN v ELSE v + flag)
    ELSE (IF HasFlag(v, flag) THEN v - flag ELSE v)

\* (flags & (0x3 << 3)) >> 3
Preference(flags) == (flags \div PREFERENCE_SHIFT) % (PREFERENCE_MASK + 1)

\* a faulty variant of SetPreferenceBits: the other bits are not kept
SetPreferenceBits_overwrites(flags, preference) ==
    preference * PREFERENCE_SHIFT

\* (flags & ~(0x3 << 3)) | (preference << 3)
SetPreferenceBits(flags, preference) ==
    flags - Preference(flags) * PREFERENCE_SHIFT + preference * PREFERENCE_SHIFT

-----------------------------------------------------------------------------
(* The session object. *)

\* new0(sd_radv, 1) followed by n_ref = 1 and LIST_HEAD_INIT
NewRadv ==
    [n_ref          |-> 1,
     event          |-> NULL,
     event_priority |-> 0,
     state          |-> SD_RADV_STATE_IDLE,
     ifindex        |-> 0,
     mac_addr       |-> ZeroMac,
     mtu            |-> 0,
     hop_limit      |-> 0,
     lifetime       |-> 0,
     flags          |-> 0,
     prefixes       |-> <<>>,
     n_prefixes     |-> 0]

\* the session after mfree(ra): no field of it is read again
FreedRadv == [NewRadv EXCEPT !.n_ref = 0]

Live == ra.n_ref > 0

Call(name, arg) == [name |-> name, arg |-> arg, released |-> <<>>]

\* the prefix objects: a fixed pool of allocations, numbered from 1
Prefixes == {1, 2}
PrefixArgs == Prefixes \cup {NULL}

\* struct in6_addr: s6_addr[16], here indexed from 1
ZeroAddr == [i \in 1..16 |-> 0]
\* 2001:db8::
Addr_db8 == [i \in 1..16 |->
               CASE i = 1 -> 32 [] i = 2 -> 1 [] i = 3 -> 13 [] i = 4 -> 184
                 [] OTHER -> 0]
\* 2001:db8:1::
Addr_db8_1 == [Addr_db8 EXCEPT ![6] = 1]
Addrs == {Addr_db8, Addr_db8_1}

\* unsigned char prefixlen arguments: one below the minimum, the minimum, and
\* the lengths of 2001:db8::/32 and 2001:db8:1::/48
PrefixLens == {2, 3, 32, 48}

MIN_PREFIXLEN == 3
MAX_PREFIXLEN == 128
DEFAULT_PREFIXLEN == 64

\* the memory of a prefix that is not allocated
FreedPrefix == [n_ref |-> 0, in6_addr |-> ZeroAddr, prefixlen |-> 0]

\* new0(sd_radv_prefix, 1) as sd_radv_prefix_new fills it
NewPrefix == [n_ref |-> 1, in6_addr |-> ZeroAddr, prefixlen |-> DEFAULT_PREFIXLEN]

Init ==
    /\ ra = NewRadv
    /\ pfx = [p \in Prefixes |-> FreedPrefix]
    /\ held = [p \in Prefixes |-> 0]
    /\ event_n_ref = [e \in Events |-> 0]
    /\ op = Call("sd_radv_new", <<>>)
    /\ ret = 0

-----------------------------------------------------------------------------
(* Session lifecycle. *)

sd_radv_new ==
    /\ ~Live
    /\ ra' = NewRadv
    /\ op' = Call("sd_radv_new", <<>>)
    /\ ret' = 0
    /\ UNCHANGED <<pfx, held, event_n_ref>>

\* sd_event_unref(e) as called on the session's event; NULL is accepted
EventUnref(refs, e) ==
    IF e = NULL THEN refs ELSE [refs EXCEPT ![e] = @ - 1]

\* a faulty variant of sd_radv_attach_event: an attached event is replaced
sd_radv_attach_event_replaces(event, priority) ==
    /\ Live
    /\ op' = Call("sd_radv_attach_event", <<event, priority>>)
    /\ UNCHANGED <<pfx, held>>
    /\ IF event # NULL
       THEN /\ ra' = [ra EXCEPT !.event = event, !.event_priority = priority]
            /\ event_n_ref' = [event_n_ref EXCEPT ![event] = @ + 1]
            /\ ret' = 0
       ELSE /\ ra' = [ra EXCEPT !.event = DefaultEvent,
                                !.event_priority = priority]
            /\ event_n_ref' = [event_n_ref EXCEPT ![DefaultEvent] = @ + 1]
            /\ ret' = 0

sd_radv_attach_event(event, priority) ==
    /\ Live
    /\ op' = Call("sd_radv_attach_event", <<event, priority>>)
    /\ UNCHANGED <<pfx, held>>
    /\ IF ra.event # NULL
       THEN /\ ret' = -EBUSY
            /\ UNCHANGED <<ra, event_n_ref>>
       ELSE IF event # NULL
       THEN /\ ra' = [ra EXCEPT !.event = event, !.event_priority = priority]
            /\ event_n_ref' = [event_n_ref EXCEPT ![event] = @ + 1]
            /\ ret' = 0
       ELSE \E r \in {-1, 0} :    \* what sd_event_default() returns
              IF r < 0
              THEN /\ ret' = 0
                   /\ UNCHANGED <<ra, event_n_ref>>
              ELSE /\ ra' = [ra EXCEPT !.event = DefaultEvent,
                                       !.event_priority = priority]
                   /\ event_n_ref' = [event_n_ref EXCEPT ![DefaultEvent] = @ + 1]
                   /\ ret' = 0

sd_radv_detach_event ==
    /\ Live
    /\ op' = Call("sd_radv_detach_event", <<>>)
    /\ ra' = [ra EXCEPT !.event = NULL]
    /\ event_n_ref' = EventUnref(event_n_ref, ra.event)
    /\ ret' = 0
    /\ UNCHANGED <<pfx, held>>

sd_radv_ref ==
    /\ Live
    /\ ra.n_ref < MaxRef
    /\ op' = Call("sd_radv_ref", <<>>)
    /\ ra' = [ra EXCEPT !.n_ref = @ + 1]
    /\ ret' = 0
    /\ UNCHANGED <<pfx, held, event_n_ref>>

\* sd_radv_prefix_unref as the session calls it on a member: one reference less,
\* and the memory is freed when none is left
PrefixUnref(f, p) ==
    IF f[p].n_ref - 1 > 0
    THEN [f EXCEPT ![p].n_ref = @ - 1]
    ELSE [f EXCEPT ![p] = FreedPrefix]

\* the while loop of sd_radv_unref: the head is removed and unref'ed until the
\* list is empty
RECURSIVE ReleasePrefixes(_, _)
ReleasePrefixes(f, list) ==
    IF list = <<>>
    THEN f
    ELSE ReleasePrefixes(PrefixUnref(f, Head(list)), Tail(list))

\* a faulty variant of sd_radv_unref: the members are not released
sd_radv_unref_leaks ==
    /\ Live
    /\ ret' = 0
    /\ UNCHANGED held
    /\ IF ra.n_ref - 1 > 0
       THEN /\ ra' = [ra EXCEPT !.n_ref = @ - 1]
            /\ op' = Call("sd_radv_unref", <<>>)
            /\ UNCHANGED <<pfx, event_n_ref>>
       ELSE /\ pfx' = pfx
            /\ op' = [Call("sd_radv_unref", <<>>) EXCEPT !.released = ra.prefixes]
            /\ event_n_ref' = EventUnref(event_n_ref, ra.event)
            /\ ra' = FreedRadv

sd_radv_unref ==
    /\ Live
    /\ ret' = 0
    /\ UNCHANGED held
    /\ IF ra.n_ref - 1 > 0
       THEN /\ ra' = [ra EXCEPT !.n_ref = @ - 1]
            /\ op' = Call("sd_radv_unref", <<>>)
            /\ UNCHANGED <<pfx, event_n_ref>>
       ELSE /\ pfx' = ReleasePrefixes(pfx, ra.prefixes)
            /\ op' = [Call("sd_radv_unref", <<>>) EXCEPT !.released = ra.prefixes]
            /\ event_n_ref' = EventUnref(event_n_ref, ra.event)
            /\ ra' = FreedRadv

\* a faulty variant of sd_radv_stop: it also drops the event
sd_radv_stop_detaches ==
    /\ Live
    /\ op' = Call("sd_radv_stop", <<>>)
    /\ ra' = [ra EXCEPT !.state = SD_RADV_STATE_IDLE, !.event = NULL]
    /\ ret' = 0
    /\ UNCHANGED <<pfx, held, event_n_ref>>

sd_radv_stop ==
    /\ Live
    /\ op' = Call("sd_radv_stop", <<>>)
    /\ ra' = [ra EXCEPT !.state = SD_RADV_STATE_IDLE]
    /\ ret' = 0
    /\ UNCHANGED <<pfx, held, event_n_ref>>

\* a faulty variant of sd_radv_start: the state is tested before the event
sd_radv_start_state_first ==
    /\ Live
    /\ op' = Call("sd_radv_start", <<>>)
    /\ UNCHANGED <<pfx, held, event_n_ref>>
    /\ IF ra.state # SD_RADV_STATE_IDLE
       THEN ret' = 0 /\ UNCHANGED ra
       ELSE IF ra.event = NULL
       THEN ret' = -EINVAL /\ UNCHANGED ra
       ELSE IF ~(ra.ifindex > 0)
       THEN ret' = -EINVAL /\ UNCHANGED ra
       ELSE /\ ra' = [ra EXCEPT !.state = SD_RADV_STATE_ADVERTISING]
            /\ ret' = 0

\* a faulty variant of sd_radv_start: the event is not tested
sd_radv_start_no_event ==
    /\ Live
    /\ op' = Call("sd_radv_start", <<>>)
    /\ UNCHANGED <<pfx, held, event_n_ref>>
    /\ IF ~(ra.ifindex > 0)
       THEN ret' = -EINVAL /\ UNCHANGED ra
       ELSE IF ra.state # SD_RADV_STATE_IDLE
       THEN ret' = 0 /\ UNCHANGED ra
       ELSE /\ ra' = [ra EXCEPT !.state = SD_RADV_STATE_ADVERTISING]
            /\ ret' = 0

\* a faulty variant of sd_radv_start: the interface index is not tested
sd_radv_start_no_ifindex ==
    /\ Live
    /\ op' = Call("sd_radv_start", <<>>)
    /\ UNCHANGED <<pfx, held, event_n_ref>>
    /\ IF ra.event = NULL
       THEN ret' = -EINVAL /\ UNCHANGED ra
       ELSE IF ra.state # SD_RADV_STATE_IDLE
       THEN ret' = 0 /\ UNCHANGED ra
       ELSE /\ ra' = [ra EXCEPT !.state = SD_RADV_STATE_ADVERTISING]
            /\ ret' = 0

sd_radv_start ==
    /\ Live
    /\ op' = Call("sd_radv_start", <<>>)
    /\ UNCHANGED <<pfx, held, event_n_ref>>
    /\ IF ra.event = NULL
       THEN ret' = -EINVAL /\ UNCHANGED ra
       ELSE IF ~(ra.ifindex > 0)
       THEN ret' = -EINVAL /\ UNCHANGED ra
       ELSE IF ra.state # SD_RADV_STATE_IDLE
       THEN ret' = 0 /\ UNCHANGED ra
       ELSE /\ ra' = [ra EXCEPT !.state = SD_RADV_STATE_ADVERTISING]
            /\ ret' = 0

-----------------------------------------------------------------------------
(* Router-level setters. *)

sd_radv_set_ifindex(ifindex) ==
    /\ Live
    /\ op' = Call("sd_radv_set_ifindex", <<ifindex>>)
    /\ UNCHANGED <<pfx, held, event_n_ref>>
    /\ IF ~(ifindex >= -1)
       THEN ret' = -EINVAL /\ UNCHANGED ra
       ELSE IF ra.state # SD_RADV_STATE_IDLE
       THEN ret' = -EBUSY /\ UNCHANGED ra
       ELSE /\ ra' = [ra EXCEPT !.ifindex = ifindex]
            /\ ret' = 0

sd_radv_set_mac(mac_addr) ==
    /\ Live
    /\ op' = Call("sd_radv_set_mac", <<mac_addr>>)
    /\ UNCHANGED <<pfx, held, event_n_ref>>
    /\ IF ra.state # SD_RADV_STATE_IDLE
       THEN ret' = -EBUSY /\ UNCHANGED ra
       ELSE /\ ra' = [ra EXCEPT !.mac_addr =
                          IF mac_addr # NullMac THEN mac_addr ELSE ZeroMac]
            /\ ret' = 0

\* a faulty variant of sd_radv_set_mtu: the state is not tested
sd_radv_set_mtu_ungated(mtu) ==
    /\ Live
    /\ op' = Call("sd_radv_set_mtu", <<mtu>>)
    /\ UNCHANGED <<pfx, held, event_n_ref>>
    /\ IF ~(mtu >= MIN_MTU)
       THEN ret' = -EINVAL /\ UNCHANGED ra
       ELSE /\ ra' = [ra EXCEPT !.mtu = mtu]
            /\ ret' = 0

\* a faulty variant of sd_radv_set_mtu: only a zero MTU is refused
sd_radv_set_mtu_no_min(mtu) ==
    /\ Live
    /\ op' = Call("sd_radv_set_mtu", <<mtu>>)
    /\ UNCHANGED <<pfx, held, event_n_ref>>
    /\ IF ~(mtu > 0)
       THEN ret' = -EINVAL /\ UNCHANGED ra
       ELSE IF ra.state # SD_RADV_STATE_IDLE
       THEN ret' = -EBUSY /\ UNCHANGED ra
       ELSE /\ ra' = [ra EXCEPT !.mtu = mtu]
            /\ ret' = 0

sd_radv_set_mtu(mtu) ==
    /\ Live
    /\ op' = Call("sd_radv_set_mtu", <<mtu>>)
    /\ UNCHANGED <<pfx, held, event_n_ref>>
    /\ IF ~(mtu >= MIN_MTU)
       THEN ret' = -EINVAL /\ UNCHANGED ra
       ELSE IF ra.state # SD_RADV_STATE_IDLE
       THEN ret' = -EBUSY /\ UNCHANGED ra
       ELSE /\ ra' = [ra EXCEPT !.mtu = mtu]
            /\ ret' = 0

sd_radv_set_hop_limit(hop_limit) ==
    /\ Live
    /\ op' = Call("sd_radv_set_hop_limit", <<hop_limit>>)
    /\ UNCHANGED <<pfx, held, event_n_ref>>
    /\ IF ra.state # SD_RADV_STATE_IDLE
       THEN ret' = -EBUSY /\ UNCHANGED ra
       ELSE /\ ra' = [ra EXCEPT !.hop_limit = hop_limit]
            /\ ret' = 0

\* a faulty variant of sd_radv_set_router_lifetime: the preference is not tested
sd_radv_set_router_lifetime_unchecked(router_lifetime) ==
    /\ Live
    /\ op' = Call("sd_radv_set_router_lifetime", <<router_lifetime>>)
    /\ UNCHANGED <<pfx, held, event_n_ref>>
    /\ IF ra.state # SD_RADV_STATE_IDLE
       THEN ret' = -EBUSY /\ UNCHANGED ra
       ELSE /\ ra' = [ra EXCEPT !.lifetime = router_lifetime]
            /\ ret' = 0

sd_radv_set_router_lifetime(router_lifetime) ==
    /\ Live
    /\ op' = Call("sd_radv_set_router_lifetime", <<router_lifetime>>)
    /\ UNCHANGED <<pfx, held, event_n_ref>>
    /\ IF ra.state # SD_RADV_STATE_IDLE
       THEN ret' = -EBUSY /\ UNCHANGED ra
       ELSE IF /\ router_lifetime = 0
               /\ Preference(ra.flags) # SD_NDISC_PREFERENCE_MEDIUM
       THEN ret' = -ETIME /\ UNCHANGED ra
       ELSE /\ ra' = [ra EXCEPT !.lifetime = router_lifetime]
            /\ ret' = 0

sd_radv_set_managed_information(managed) ==
    /\ Live
    /\ op' = Call("sd_radv_set_managed_information", <<managed>>)
    /\ UNCHANGED <<pfx, held, event_n_ref>>
    /\ IF ra.state # SD_RADV_STATE_IDLE
       THEN ret' = -EBUSY /\ UNCHANGED ra
       ELSE /\ ra' = [ra EXCEPT !.flags = SET_FLAG(@, ND_RA_FLAG_MANAGED, managed)]
            /\ ret' = 0

sd_radv_set_other_information(other) ==
    /\ Live
    /\ op' = Call("sd_radv_set_other_information", <<other>>)
    /\ UNCHANGED <<pfx, held, event_n_ref>>
    /\ IF ra.state # SD_RADV_STATE_IDLE
       THEN ret' = -EBUSY /\ UNCHANGED ra
       ELSE /\ ra' = [ra EXCEPT !.flags = SET_FLAG(@, ND_RA_FLAG_OTHER, other)]
            /\ ret' = 0

\* a faulty variant of sd_radv_set_preference: gated on the Idle state like the
\* other setters
sd_radv_set_preference_gated(preference) ==
    /\ Live
    /\ op' = Call("sd_radv_set_preference", <<preference>>)
    /\ UNCHANGED <<pfx, held, event_n_ref>>
    /\ IF preference \notin {SD_NDISC_PREFERENCE_LOW,
                             SD_NDISC_PREFERENCE_MEDIUM,
                             SD_NDISC_PREFERENCE_HIGH}
       THEN ret' = -EINVAL /\ UNCHANGED ra
       ELSE IF ra.state # SD_RADV_STATE_IDLE
       THEN ret' = -EBUSY /\ UNCHANGED ra
       ELSE /\ ra' = [ra EXCEPT !.flags = SetPreferenceBits(@, preference)]
            /\ ret' = 0

sd_radv_set_preference(preference) ==
    /\ Live
    /\ op' = Call("sd_radv_set_preference", <<preference>>)
    /\ UNCHANGED <<pfx, held, event_n_ref>>
    /\ IF preference \notin {SD_NDISC_PREFERENCE_LOW,
                             SD_NDISC_PREFERENCE_MEDIUM,
                             SD_NDISC_PREFERENCE_HIGH}
       THEN ret' = -EINVAL /\ UNCHANGED ra
       ELSE /\ ra' = [ra EXCEPT !.flags = SetPreferenceBits(@, preference)]
            /\ ret' = 0

-----------------------------------------------------------------------------
(* Prefix options and the session's prefix list. *)

Min(a, b) == IF a < b THEN a ELSE b

\* 1 << n, for the shifts within a byte
Pow2(n) == <<1, 2, 4, 8, 16, 32, 64, 128, 256>>[n + 1]

\* the byte loop of in_addr_prefix_intersect for AF_INET6: byte i is compared
\* under the mask of the m prefix bits that are left
RECURSIVE IntersectFrom(_, _, _, _)
IntersectFrom(a, b, i, m) ==
    IF i > 16
    THEN 1
    ELSE LET k == IF m < 8 THEN m ELSE 8
         IN  IF (a[i] \div Pow2(8 - k)) # (b[i] \div Pow2(8 - k))
             THEN 0
             ELSE IntersectFrom(a, b, i + 1, IF m > 8 THEN m - 8 ELSE 0)

\* in_addr_prefix_intersect(AF_INET6, a, aprefixlen, b, bprefixlen): 1 when the
\* two networks share an address, 0 when they do not
in_addr_prefix_intersect(a, aprefixlen, b, bprefixlen) ==
    IntersectFrom(a, b, 1, Min(Min(aprefixlen, bprefixlen), 128))

\* the LIST_FOREACH of sd_radv_add_prefix from member i on: -EEXIST at the first
\* member that intersects p, 0 when the end of the list is reached
\* a faulty variant of ScanPrefixes: only an equal address and length is found
RECURSIVE ScanPrefixes_equal_only(_, _, _, _)
ScanPrefixes_equal_only(f, list, i, p) ==
    IF i > Len(list)
    THEN 0
    ELSE IF /\ f[list[i]].in6_addr = f[p].in6_addr
            /\ f[list[i]].prefixlen = f[p].prefixlen
         THEN -EEXIST
         ELSE ScanPrefixes_equal_only(f, list, i + 1, p)

\* a faulty variant of ScanPrefixes: the entry that is the new prefix itself
\* is passed over
RECURSIVE ScanPrefixes_skips_self(_, _, _, _)
ScanPrefixes_skips_self(f, list, i, p) ==
    IF i > Len(list)
    THEN 0
    ELSE IF /\ list[i] # p
            /\ in_addr_prefix_intersect(f[list[i]].in6_addr, f[list[i]].prefixlen,
                                        f[p].in6_addr, f[p].prefixlen) > 0
         THEN -EEXIST
         ELSE ScanPrefixes_skips_self(f, list, i + 1, p)

\* a faulty variant of ScanPrefixes: only the head of the list is compared
ScanPrefixes_head_only(f, list, i, p) ==
    IF i > Len(list)
    THEN 0
    ELSE IF in_addr_prefix_intersect(f[list[i]].in6_addr, f[list[i]].prefixlen,
                                     f[p].in6_addr, f[p].prefixlen) > 0
         THEN -EEXIST
         ELSE 0

RECURSIVE ScanPrefixes(_, _, _, _)
ScanPrefixes(f, list, i, p) ==
    IF i > Len(list)
    THEN 0
    ELSE IF in_addr_prefix_intersect(f[list[i]].in6_addr, f[list[i]].prefixlen,
                                     f[p].in6_addr, f[p].prefixlen) > 0
         THEN -EEXIST
         ELSE ScanPrefixes(f, list, i + 1, p)

\* a faulty variant of sd_radv_add_prefix: the list takes no reference
sd_radv_add_prefix_no_ref(p) ==
    /\ Live
    /\ p # NULL => held[p] > 0
    /\ op' = Call("sd_radv_add_prefix", <<p>>)
    /\ UNCHANGED <<held, event_n_ref>>
    /\ IF p = NULL
       THEN ret' = -EINVAL /\ UNCHANGED <<ra, pfx>>
       ELSE IF ScanPrefixes(pfx, ra.prefixes, 1, p) # 0
       THEN ret' = -EEXIST /\ UNCHANGED <<ra, pfx>>
       ELSE /\ ra' = [ra EXCEPT !.prefixes = Append(@, p),
                                !.n_prefixes = @ + 1]
            /\ ret' = 0
            /\ UNCHANGED pfx

\* a faulty variant of sd_radv_add_prefix: the prefix is put at the head
sd_radv_add_prefix_prepends(p) ==
    /\ Live
    /\ p # NULL => held[p] > 0
    /\ op' = Call("sd_radv_add_prefix", <<p>>)
    /\ UNCHANGED <<held, event_n_ref>>
    /\ IF p = NULL
       THEN ret' = -EINVAL /\ UNCHANGED <<ra, pfx>>
       ELSE IF ScanPrefixes(pfx, ra.prefixes, 1, p) # 0
       THEN ret' = -EEXIST /\ UNCHANGED <<ra, pfx>>
       ELSE /\ pfx' = [pfx EXCEPT ![p].n_ref = @ + 1]
            /\ ra' = [ra EXCEPT !.prefixes = <<p>> \o @,
                                !.n_prefixes = @ + 1]
            /\ ret' = 0

\* a faulty variant of sd_radv_add_prefix: the reference is taken before the
\* list is scanned
sd_radv_add_prefix_refs_first(p) ==
    /\ Live
    /\ p # NULL => held[p] > 0
    /\ op' = Call("sd_radv_add_prefix", <<p>>)
    /\ UNCHANGED <<held, event_n_ref>>
    /\ IF p = NULL
       THEN ret' = -EINVAL /\ UNCHANGED <<ra, pfx>>
       ELSE IF ScanPrefixes(pfx, ra.prefixes, 1, p) # 0
       THEN /\ ret' = -EEXIST
            /\ pfx' = [pfx EXCEPT ![p].n_ref = @ + 1]
            /\ UNCHANGED ra
       ELSE /\ pfx' = [pfx EXCEPT ![p].n_ref = @ + 1]
            /\ ra' = [ra EXCEPT !.prefixes = Append(@, p),
                                !.n_prefixes = @ + 1]
            /\ ret' = 0

sd_radv_add_prefix(p) ==
    /\ Live
    /\ p # NULL => held[p] > 0
    /\ op' = Call("sd_radv_add_prefix", <<p>>)
    /\ UNCHANGED <<held, event_n_ref>>
    /\ IF p = NULL
       THEN ret' = -EINVAL /\ UNCHANGED <<ra, pfx>>
       ELSE IF ScanPrefixes(pfx, ra.prefixes, 1, p) # 0
       THEN ret' = -EEXIST /\ UNCHANGED <<ra, pfx>>
       ELSE /\ pfx' = [pfx EXCEPT ![p].n_ref = @ + 1]
            /\ ra' = [ra EXCEPT !.prefixes = Append(@, p),
                                !.n_prefixes = @ + 1]
            /\ ret' = 0

sd_radv_prefix_new(p) ==
    /\ pfx[p].n_ref = 0
    /\ op' = Call("sd_radv_prefix_new", <<p>>)
    /\ pfx' = [pfx EXCEPT ![p] = NewPrefix]
    /\ held' = [held EXCEPT ![p] = 1]
    /\ ret' = 0
    /\ UNCHANGED <<ra, event_n_ref>>

sd_radv_prefix_ref(p) ==
    /\ held[p] > 0
    /\ held[p] < MaxRef
    /\ op' = Call("sd_radv_prefix_ref", <<p>>)
    /\ pfx' = [pfx EXCEPT ![p].n_ref = @ + 1]
    /\ held' = [held EXCEPT ![p] = @ + 1]
    /\ ret' = 0
    /\ UNCHANGED <<ra, event_n_ref>>

sd_radv_prefix_unref(p) ==
    /\ held[p] > 0
    /\ op' = Call("sd_radv_prefix_unref", <<p>>)
    /\ pfx' = PrefixUnref(pfx, p)
    /\ held' = [held EXCEPT ![p] = @ - 1]
    /\ ret' = 0
    /\ UNCHANGED <<ra, event_n_ref>>

\* a faulty variant of sd_radv_prefix_set_prefix: the upper limit is the
\* default length
sd_radv_prefix_set_prefix_max64(p, in6_addr, prefixlen) ==
    /\ held[p] > 0
    /\ op' = Call("sd_radv_prefix_set_prefix", <<p, in6_addr, prefixlen>>)
    /\ UNCHANGED <<ra, held, event_n_ref>>
    /\ IF prefixlen < MIN_PREFIXLEN \/ prefixlen > DEFAULT_PREFIXLEN
       THEN ret' = -EINVAL /\ UNCHANGED pfx
       ELSE /\ pfx' = [pfx EXCEPT ![p].in6_addr = in6_addr,
                                  ![p].prefixlen = prefixlen]
            /\ ret' = 0

sd_radv_prefix_set_prefix(p, in6_addr, prefixlen) ==
    /\ held[p] > 0
    /\ op' = Call("sd_radv_prefix_set_prefix", <<p, in6_addr, prefixlen>>)
    /\ UNCHANGED <<ra, held, event_n_ref>>
    /\ IF prefixlen < MIN_PREFIXLEN \/ prefixlen > MAX_PREFIXLEN
       THEN ret' = -EINVAL /\ UNCHANGED pfx
       ELSE /\ pfx' = [pfx EXCEPT ![p].in6_addr = in6_addr,
                                  ![p].prefixlen = prefixlen]
            /\ ret' = 0

-----------------------------------------------------------------------------
(* The session's configuration and lifecycle: every call on the session    *)
(* itself.  The prefix list stays as it is (see SpecPrefix).               *)

Next ==
    \/ sd_radv_new
    \/ \E event \in EventArgs, priority \in Priorities :
           sd_radv_attach_event(event, priority)
    \/ sd_radv_detach_event
    \/ sd_radv_ref
    \/ sd_radv_unref
    \/ sd_radv_stop
    \/ sd_radv_start
    \/ \E ifindex \in IfIndexes : sd_radv_set_ifindex(ifindex)
    \/ \E mac_addr \in MacArgs : sd_radv_set_mac(mac_addr)
    \/ \E mtu \in Mtus : sd_radv_set_mtu(mtu)
    \/ \E hop_limit \in HopLimits : sd_radv_set_hop_limit(hop_limit)
    \/ \E router_lifetime \in Lifetimes : sd_radv_set_router_lifetime(router_lifetime)
    \/ \E managed \in Bools : sd_radv_set_managed_information(managed)
    \/ \E other \in Bools : sd_radv_set_other_information(other)
    \/ \E preference \in Preferences : sd_radv_set_preference(preference)

Spec == Init /\ [][Next]_vars

-----------------------------------------------------------------------------
(* The prefix list: the prefix calls on a session that is configured far   *)
(* enough to be started (sd_radv_set_ifindex(1) and sd_radv_attach_event   *)
(* of the caller's event were called), with its start, stop, ref and unref.*)

InitPrefix ==
    /\ ra = [NewRadv EXCEPT !.ifindex = 1, !.event = CallerEvent]
    /\ pfx = [p \in Prefixes |-> FreedPrefix]
    /\ held = [p \in Prefixes |-> 0]
    /\ event_n_ref = [e \in Events |-> IF e = CallerEvent THEN 1 ELSE 0]
    /\ op = Call("sd_radv_attach_event", <<CallerEvent, 0>>)
    /\ ret = 0

NextPrefix ==
    \/ sd_radv_ref
    \/ sd_radv_unref
    \/ sd_radv_stop
    \/ sd_radv_start
    \/ \E p \in Prefixes : sd_radv_prefix_new(p)
    \/ \E p \in Prefixes : sd_radv_prefix_ref(p)
    \/ \E p \in Prefixes : sd_radv_prefix_unref(p)
    \/ \E p \in Prefixes, in6_addr \in Addrs, prefixlen \in PrefixLens :
           sd_radv_prefix_set_prefix(p, in6_addr, prefixlen)
    \/ \E p \in PrefixArgs : sd_radv_add_prefix(p)

SpecPrefix == InitPrefix /\ [][NextPrefix]_vars

-----------------------------------------------------------------------------
(* The prefix length: prefixes are made, configured with lengths at, just  *)
(* below and just above both limits, added to the session and released.    *)

PrefixLenLimits == {2, 3, 100, 128, 129}

NextPrefixLen ==
    \/ \E p \in Prefixes : sd_radv_prefix_new(p)
    \/ \E p \in Prefixes : sd_radv_prefix_ref(p)
    \/ \E p \in Prefixes : sd_radv_prefix_unref(p)
    \/ \E p \in Prefixes, in6_addr \in Addrs, prefixlen \in PrefixLenLimits :
           sd_radv_prefix_set_prefix(p, in6_addr, prefixlen)
    \/ \E p \in Prefixes : sd_radv_add_prefix(p)

SpecPrefixLen == InitPrefix /\ [][NextPrefixLen]_vars

-----------------------------------------------------------------------------
(* The calls that can fail, on a session and on its prefix list together:  *)
(* a new session is configured, started and stopped while prefixes are     *)
(* made, configured and added.  The arguments are the few that reach every *)
(* error of the file: a bad interface index, MTU, preference and prefix    *)
(* length, a NULL prefix, a second attach, a setter on an Advertising      *)
(* session, a zero lifetime under a High preference, and 2001:db8::/32     *)
(* against 2001:db8:1::/32.                                                *)

NextErr ==
    \/ sd_radv_attach_event(CallerEvent, 0)
    \/ sd_radv_start
    \/ sd_radv_stop
    \/ \E ifindex \in {-2, 1} : sd_radv_set_ifindex(ifindex)
    \/ sd_radv_set_mtu(1279)
    \/ \E preference \in {SD_NDISC_PREFERENCE_HIGH, 2} :
           sd_radv_set_preference(preference)
    \/ sd_radv_set_router_lifetime(0)
    \/ \E p \in Prefixes : sd_radv_prefix_new(p)
    \/ \E p \in Prefixes : sd_radv_prefix_unref(p)
    \/ \E p \in Prefixes, in6_addr \in Addrs, prefixlen \in {2, 32} :
           sd_radv_prefix_set_prefix(p, in6_addr, prefixlen)
    \/ \E p \in PrefixArgs : sd_radv_add_prefix(p)

SpecErr == Init /\ [][NextErr]_vars

-----------------------------------------------------------------------------
(* Definitions shared by the properties below. *)

\* the setters that are gated on the Idle state
GatedSetters ==
    {"sd_radv_set_ifindex", "sd_radv_set_mac", "sd_radv_set_mtu",
     "sd_radv_set_hop_limit", "sd_radv_set_router_lifetime",
     "sd_radv_set_managed_information", "sd_radv_set_other_information"}

\* the argument of a gated setter passes the setter's own argument check
ValidArg(call) ==
    CASE call.name = "sd_radv_set_ifindex" -> call.arg[1] >= -1
      [] call.name = "sd_radv_set_mtu" -> call.arg[1] >= 1280
      [] OTHER -> TRUE

Idle == Live /\ ra.state = SD_RADV_STATE_IDLE
Advertising == Live /\ ra.state = SD_RADV_STATE_ADVERTISING

\* the router parameters the gated setters write
RouterConfig(r) ==
    <<r.ifindex, r.mac_addr, r.mtu, r.hop_limit, r.lifetime,
      HasFlag(r.flags, ND_RA_FLAG_MANAGED), HasFlag(r.flags, ND_RA_FLAG_OTHER)>>

-----------------------------------------------------------------------------
(* C1: while the session is Advertising, every gated setter called with an *)
(* argument that passes its own check returns -EBUSY and leaves the        *)
(* session as it was; and across any step that starts and ends in          *)
(* Advertising the interface index, MAC, MTU, hop limit, router lifetime   *)
(* and the managed and other bits keep their values.                       *)
C1_GatedSettersBusyWhileAdvertising ==
    [][ /\ (Advertising /\ op'.name \in GatedSetters /\ ValidArg(op'))
           => (ret' = -EBUSY /\ ra' = ra)
        /\ (Advertising /\ Advertising')
           => RouterConfig(ra') = RouterConfig(ra) ]_vars

\* set_mtu(1500) was called on an Advertising session and came back busy
C1_Witness ==
    /\ Advertising
    /\ op = Call("sd_radv_set_mtu", <<1500>>)
    /\ ret = -EBUSY
    /\ ra.mtu = 1280

-----------------------------------------------------------------------------
(* C2: in every reachable state of a live session, a router lifetime of 0  *)
(* comes with the preference Medium (0) in the flags.                      *)
C2_ZeroLifetimeHasMediumPreference ==
    (Live /\ ra.lifetime = 0)
       => Preference(ra.flags) = SD_NDISC_PREFERENCE_MEDIUM

-----------------------------------------------------------------------------
(* C3: on an Idle session set_router_lifetime(v) returns -ETIME and keeps  *)
(* the lifetime exactly when v = 0 and the preference is not Medium; in    *)
(* every other case it returns 0 and the lifetime becomes v.               *)
C3_RouterLifetimeTiming ==
    [][ (Idle /\ op'.name = "sd_radv_set_router_lifetime")
        => LET v == op'.arg[1]
           IN  IF v = 0 /\ Preference(ra.flags) # SD_NDISC_PREFERENCE_MEDIUM
               THEN ret' = -ETIME /\ ra'.lifetime = ra.lifetime
               ELSE ret' = 0 /\ ra'.lifetime = v ]_vars

\* lifetime 0 was refused on an Idle session whose preference is Low
C3_Witness ==
    /\ Idle
    /\ op = Call("sd_radv_set_router_lifetime", <<0>>)
    /\ ret = -ETIME
    /\ Preference(ra.flags) = SD_NDISC_PREFERENCE_LOW
    /\ ra.lifetime = 1800

-----------------------------------------------------------------------------
(* C4, as claimed: in every state where the session is Advertising,        *)
(* start() returns 0 and changes nothing.                                  *)
C4_StartOnAdvertisingSucceeds ==
    [][ (Advertising /\ op'.name = "sd_radv_start")
        => (ret' = 0 /\ UNCHANGED <<ra, pfx, held, event_n_ref>>) ]_vars

(* C4, amended: in every state where the session is Advertising, start()   *)
(* changes nothing; it returns 0 when an event is still attached and       *)
(* -EINVAL when the event was detached since the session was started.      *)
C4_StartOnAdvertisingChangesNothing ==
    [][ (Advertising /\ op'.name = "sd_radv_start")
        => /\ UNCHANGED <<ra, pfx, held, event_n_ref>>
           /\ ret' = (IF ra.event # NULL THEN 0 ELSE -EINVAL) ]_vars

\* start() was called on an Advertising session whose event was detached
C4_Witness ==
    /\ Advertising
    /\ ra.event = NULL
    /\ op = Call("sd_radv_start", <<>>)
    /\ ret = -EINVAL

-----------------------------------------------------------------------------
(* C5: start() on an Idle session moves it to Advertising exactly when an  *)
(* event is attached and the interface index is positive; otherwise it     *)
(* returns an error (-EINVAL) and the session stays Idle; nothing but the  *)
(* state changes in either case.                                           *)
C5_StartFromIdle ==
    [][ (Idle /\ op'.name = "sd_radv_start")
        => /\ UNCHANGED <<pfx, held, event_n_ref>>
           /\ IF ra.event # NULL /\ ra.ifindex > 0
              THEN /\ ret' = 0
                   /\ ra' = [ra EXCEPT !.state = SD_RADV_STATE_ADVERTISING]
              ELSE /\ ret' = -EINVAL
                   /\ ra' = ra ]_vars

\* start() failed on an Idle session that has an event but no interface index
C5_Witness ==
    /\ Idle
    /\ ra.event # NULL
    /\ ra.ifindex = -1
    /\ op = Call("sd_radv_start", <<>>)
    /\ ret = -EINVAL

-----------------------------------------------------------------------------
(* C6: stop() returns 0 and leaves the session Idle, from Idle and from    *)
(* Advertising, and changes nothing else; the gated setter that follows a  *)
(* stop() is not refused as busy: it succeeds for every argument that      *)
(* passes its own checks.                                                  *)
C6_StopFrame ==
    [][ /\ (Live /\ op'.name = "sd_radv_stop")
           => /\ ret' = 0
              /\ ra' = [ra EXCEPT !.state = SD_RADV_STATE_IDLE]
              /\ UNCHANGED <<pfx, held, event_n_ref>>
        /\ (Live /\ op.name = "sd_radv_stop" /\ op'.name \in GatedSetters
              /\ ValidArg(op'))
           => \/ ret' = 0
              \/ /\ op' = Call("sd_radv_set_router_lifetime", <<0>>)
                 /\ Preference(ra.flags) # SD_NDISC_PREFERENCE_MEDIUM
                 /\ ret' = -ETIME ]_vars

\* stop() was called on a session that is configured far enough to have
\* been started
C6_Witness ==
    /\ Idle
    /\ op = Call("sd_radv_stop", <<>>)
    /\ ret = 0
    /\ ra.event # NULL
    /\ ra.ifindex > 0
    /\ ra.mtu = 1500
    /\ Preference(ra.flags) = SD_NDISC_PREFERENCE_HIGH

-----------------------------------------------------------------------------
(* Definitions shared by the properties of the prefix list. *)

\* bit j (1 is the most significant bit of the first byte) of an address
AddrBit(a, j) == (a[((j - 1) \div 8) + 1] \div Pow2(7 - ((j - 1) % 8))) % 2

\* two addresses agree on their first n bits
AgreeOnBits(a, b, n) == \A j \in 1..n : AddrBit(a, j) = AddrBit(b, j)

\* the ranges of prefixes m and p intersect: the addresses agree on the
\* shorter of the two prefix lengths
Overlap(f, m, p) ==
    AgreeOnBits(f[m].in6_addr, f[p].in6_addr, Min(f[m].prefixlen, f[p].prefixlen))

Members(r) == {r.prefixes[i] : i \in 1..Len(r.prefixes)}

\* no two positions of the member sequence hold intersecting prefixes
NoOverlap(r, f) ==
    \A i, j \in 1..Len(r.prefixes) :
        i # j => ~Overlap(f, r.prefixes[i], r.prefixes[j])

AddPrefixCalled == op'.name = "sd_radv_add_prefix" /\ op'.arg[1] # NULL

-----------------------------------------------------------------------------
(* C7: add_prefix(session, p) returns -EEXIST if and only if some member   *)
(* agrees with p on the first min(len(m), len(p)) bits of the address; a   *)
(* rejected call leaves the member sequence, the prefix count and every    *)
(* reference count as they were.                                           *)
C7_AddPrefixRejectsIntersection ==
    [][ (Live /\ AddPrefixCalled)
        => LET p == op'.arg[1]
           IN  /\ (ret' = -EEXIST) <=> (\E m \in Members(ra) : Overlap(pfx, m, p))
               /\ (ret' = -EEXIST) => UNCHANGED <<ra, pfx, held>> ]_vars

\* a prefix nested in (or containing) another member was rejected
C7_Witness ==
    /\ Live
    /\ op.name = "sd_radv_add_prefix"
    /\ op.arg[1] # NULL
    /\ ret = -EEXIST
    /\ op.arg[1] \notin Members(ra)
    /\ \E m \in Members(ra) :
          /\ pfx[m].prefixlen = 32
          /\ pfx[op.arg[1]].prefixlen = 48
          /\ pfx[m].in6_addr # pfx[op.arg[1]].in6_addr

-----------------------------------------------------------------------------
(* C8: no step other than a successful set_prefix on a member makes two    *)
(* members of the session's prefix list intersect: the list starts empty,  *)
(* so after any calls among which no member is reconfigured after its      *)
(* insertion, no two members intersect.                                    *)
C8_MembersDisjoint ==
    [][ ( /\ Live /\ Live'
          /\ NoOverlap(ra, pfx)
          /\ ~( /\ op'.name = "sd_radv_prefix_set_prefix"
                /\ ret' = 0
                /\ op'.arg[1] \in Members(ra) ) )
        => NoOverlap(ra', pfx') ]_vars

\* 2001:db8::/48 and 2001:db8:1::/48 are both members
C8_Witness ==
    /\ Live
    /\ op.name = "sd_radv_add_prefix"
    /\ ret = 0
    /\ Len(ra.prefixes) = 2
    /\ pfx[ra.prefixes[1]].in6_addr # pfx[ra.prefixes[2]].in6_addr
    /\ \A m \in Members(ra) : pfx[m].prefixlen = 48 /\ pfx[m].in6_addr \in Addrs

-----------------------------------------------------------------------------
(* C9: a successful add_prefix appends the prefix at the tail and changes  *)
(* nothing else of the session but the prefix count, which grows by 1, and *)
(* nothing of the prefix but its reference count, which grows by 1; no     *)
(* other call on a live session changes the member sequence or the count;  *)
(* the count is the number of members in every state; and add_prefix is    *)
(* decided by the members alone, in Idle and in Advertising.               *)
C9_AddPrefixAppends ==
    [][ /\ (Live /\ AddPrefixCalled /\ ret' = 0)
           => LET p == op'.arg[1]
              IN  /\ ra' = [ra EXCEPT !.prefixes = Append(ra.prefixes, p),
                                      !.n_prefixes = ra.n_prefixes + 1]
                  /\ pfx' = [pfx EXCEPT ![p].n_ref = pfx[p].n_ref + 1]
        /\ (Live /\ Live' /\ ~(AddPrefixCalled /\ ret' = 0))
           => /\ ra'.prefixes = ra.prefixes
              /\ ra'.n_prefixes = ra.n_prefixes
        /\ (Live /\ AddPrefixCalled) => ret' \in {0, -EEXIST}
        /\ Live' => ra'.n_prefixes = Len(ra'.prefixes) ]_vars

\* a second prefix was appended while the session is Advertising
C9_Witness ==
    /\ Advertising
    /\ op.name = "sd_radv_add_prefix"
    /\ ret = 0
    /\ Len(ra.prefixes) = 2
    /\ ra.prefixes[2] = op.arg[1]
    /\ ra.prefixes[1] # op.arg[1]
    /\ ra.n_prefixes = 2
    /\ pfx[op.arg[1]].n_ref = held[op.arg[1]] + 1

-----------------------------------------------------------------------------
(* C10: an unref() that brings the session's count to zero takes exactly   *)
(* one reference from every member and releases the event; a member the    *)
(* caller still holds stays allocated with its count one lower, a member   *)
(* only the list held is freed; prefixes that are no members are not       *)
(* touched.  An unref() that leaves the count above zero only lowers it.   *)
C10_UnrefReleasesMembers ==
    [][ (Live /\ op'.name = "sd_radv_unref")
        => IF ra.n_ref = 1
           THEN /\ ~Live'
                /\ \A p \in Prefixes :
                      IF p \in Members(ra)
                      THEN IF held[p] > 0
                           THEN /\ pfx'[p] = [pfx[p] EXCEPT !.n_ref = pfx[p].n_ref - 1]
                                /\ pfx'[p].n_ref > 0
                           ELSE pfx'[p].n_ref = 0
                      ELSE pfx'[p] = pfx[p]
                /\ event_n_ref' = IF ra.event = NULL
                                  THEN event_n_ref
                                  ELSE [event_n_ref EXCEPT ![ra.event] = @ - 1]
                /\ held' = held
           ELSE /\ ra' = [ra EXCEPT !.n_ref = ra.n_ref - 1]
                /\ UNCHANGED <<pfx, held, event_n_ref>> ]_vars

\* the last unref() released two members: the first is still held by its
\* caller and stays allocated, the second was held by the list alone
C10_Witness ==
    /\ ~Live
    /\ op.name = "sd_radv_unref"
    /\ Len(op.released) = 2
    /\ held[op.released[1]] = 1
    /\ pfx[op.released[1]].n_ref = 1
    /\ held[op.released[2]] = 0
    /\ pfx[op.released[2]].n_ref = 0
    /\ event_n_ref[CallerEvent] = 0

-----------------------------------------------------------------------------
(* C11: a call that returns an error leaves the session, its prefix list,  *)
(* every prefix option and every reference count as they were.             *)
C11_ErrorsChangeNothing ==
    [][ ret' < 0 => UNCHANGED <<ra, pfx, held, event_n_ref>> ]_vars

\* 2001:db8:1::/32 was refused on an Advertising session whose list holds
\* 2001:db8::/32, after an earlier member was accepted
C11_Witness ==
    /\ Advertising
    /\ op.name = "sd_radv_add_prefix"
    /\ ret = -EEXIST
    /\ Len(ra.prefixes) = 1
    /\ op.arg[1] \notin Members(ra)
    /\ pfx[op.arg[1]].n_ref = 1
    /\ pfx[op.arg[1]].prefixlen = 32
    /\ Preference(ra.flags) = SD_NDISC_PREFERENCE_HIGH

-----------------------------------------------------------------------------
-----------------------------------------------------------------------------
(* C13: set_managed_information changes only the Managed bit,              *)
(* set_other_information only the Other bit and set_preference only the    *)
(* preference field, each to the value given; no other call changes the    *)
(* flags of a live session; and the reserved bits are zero in every state. *)

Managed(flags) == IF HasFlag(flags, ND_RA_FLAG_MANAGED) THEN 1 ELSE 0
Other(flags) == IF HasFlag(flags, ND_RA_FLAG_OTHER) THEN 1 ELSE 0

\* what is left of the flags byte without the three fields
ReservedBits(flags) ==
    flags - Managed(flags) * ND_RA_FLAG_MANAGED - Other(flags) * ND_RA_FLAG_OTHER
          - Preference(flags) * PREFERENCE_SHIFT

FlagSetters ==
    {"sd_radv_set_managed_information", "sd_radv_set_other_information",
     "sd_radv_set_preference"}

C13_FlagSettersKeepOtherBits ==
    [][ /\ (Live /\ op'.name = "sd_radv_set_managed_information" /\ ret' = 0)
           => /\ Managed(ra'.flags) = op'.arg[1]
              /\ Other(ra'.flags) = Other(ra.flags)
              /\ Preference(ra'.flags) = Preference(ra.flags)
        /\ (Live /\ op'.name = "sd_radv_set_other_information" /\ ret' = 0)
           => /\ Other(ra'.flags) = op'.arg[1]
              /\ Managed(ra'.flags) = Managed(ra.flags)
              /\ Preference(ra'.flags) = Preference(ra.flags)
        /\ (Live /\ op'.name = "sd_radv_set_preference" /\ ret' = 0)
           => /\ Preference(ra'.flags) = op'.arg[1]
              /\ Managed(ra'.flags) = Managed(ra.flags)
              /\ Other(ra'.flags) = Other(ra.flags)
        /\ (Live /\ Live' /\ ~(op'.name \in FlagSetters /\ ret' = 0))
           => ra'.flags = ra.flags
        /\ ReservedBits(ra'.flags) = 0 ]_vars

\* the Other bit was cleared and the Managed bit and the preference Low,
\* written before, are still there
C13_Witness ==
    /\ Idle
    /\ op = Call("sd_radv_set_other_information", <<0>>)
    /\ ret = 0
    /\ ra.flags = ND_RA_FLAG_MANAGED + SD_NDISC_PREFERENCE_LOW * PREFERENCE_SHIFT

-----------------------------------------------------------------------------
(* C14: set_ifindex rejects 0 and the values below -1 with -EINVAL and     *)
(* keeps the stored index; -1 and positive values are stored on an Idle    *)
(* session.                                                                *)
C14_SetIfindexRejectsZero ==
    [][ (Idle /\ op'.name = "sd_radv_set_ifindex")
        => LET v == op'.arg[1]
           IN  IF v = 0 \/ v < -1
               THEN ret' = -EINVAL /\ ra'.ifindex = ra.ifindex
               ELSE ret' = 0 /\ ra'.ifindex = v ]_vars

-----------------------------------------------------------------------------
(* C15: the MTU of a live session is 0 (never written) or at least 1280 in *)
(* every state; set_mtu below 1280 returns -EINVAL in any state and        *)
(* changes nothing; set_mtu of 1280 or more on an Idle session returns 0   *)
(* and stores the value.                                                   *)
C15_MtuUnsetOrAtLeastMinimum ==
    [][ /\ (Live /\ op'.name = "sd_radv_set_mtu" /\ op'.arg[1] < 1280)
           => (ret' = -EINVAL /\ ra' = ra)
        /\ (Idle /\ op'.name = "sd_radv_set_mtu" /\ op'.arg[1] >= 1280)
           => (ret' = 0 /\ ra'.mtu = op'.arg[1])
        /\ (ra'.mtu = 0 \/ ra'.mtu >= 1280) ]_vars

\* an MTU of 1279 was refused on an Advertising session that has an MTU
C15_Witness ==
    /\ Advertising
    /\ op = Call("sd_radv_set_mtu", <<1279>>)
    /\ ret = -EINVAL
    /\ ra.mtu = 1500

-----------------------------------------------------------------------------
(* C16: attach_event on a session that has an event returns -EBUSY and     *)
(* keeps the event and the priority; on a session without one it returns   *)
(* 0 and takes at most one reference; detach_event returns 0, leaves the   *)
(* session without an event and gives back the one reference of the event  *)
(* that was attached; in every state the references taken on an event are  *)
(* exactly the one of the session it is attached to.                       *)
C16_OneEventAttached ==
    [][ /\ (Live /\ op'.name = "sd_radv_attach_event" /\ ra.event # NULL)
           => (ret' = -EBUSY /\ ra' = ra /\ event_n_ref' = event_n_ref)
        /\ (Live /\ op'.name = "sd_radv_attach_event" /\ ra.event = NULL)
           => /\ ret' = 0
              /\ op'.arg[1] # NULL => ra'.event = op'.arg[1]
              /\ ra'.event # NULL => ra'.event_priority = op'.arg[2]
        /\ (Live /\ op'.name = "sd_radv_detach_event")
           => /\ ret' = 0
              /\ ra' = [ra EXCEPT !.event = NULL]
              /\ \A e \in Events :
                    event_n_ref'[e] = event_n_ref[e] - (IF ra.event = e THEN 1 ELSE 0)
        /\ \A e \in Events :
              event_n_ref'[e] = (IF Live' /\ ra'.event = e THEN 1 ELSE 0) ]_vars

\* a second attach was refused: the default event and its priority stay
C16_Witness ==
    /\ Live
    /\ op = Call("sd_radv_attach_event", <<CallerEvent, 5>>)
    /\ ret = -EBUSY
    /\ ra.event = DefaultEvent
    /\ ra.event_priority = 0
    /\ event_n_ref[CallerEvent] = 0

-----------------------------------------------------------------------------
(* C17: the length of every allocated prefix is within 3..128 in every     *)
(* state: prefix_new gives 64; set_prefix with a length in 3..128 returns  *)
(* 0 and stores the address and the length; with a length below 3 or above *)
(* 128 it returns -EINVAL and leaves the prefix as it was.                 *)
C17_PrefixLengthWithinLimits ==
    [][ /\ op'.name = "sd_radv_prefix_new"
           => (ret' = 0 /\ pfx'[op'.arg[1]].prefixlen = 64)
        /\ (op'.name = "sd_radv_prefix_set_prefix"
              /\ op'.arg[3] >= 3 /\ op'.arg[3] <= 128)
           => /\ ret' = 0
              /\ pfx'[op'.arg[1]].in6_addr = op'.arg[2]
              /\ pfx'[op'.arg[1]].prefixlen = op'.arg[3]
        /\ (op'.name = "sd_radv_prefix_set_prefix"
              /\ (op'.arg[3] < 3 \/ op'.arg[3] > 128))
           => (ret' = -EINVAL /\ pfx' = pfx)
        /\ \A p \in Prefixes :
              pfx'[p].n_ref > 0
              => (pfx'[p].prefixlen >= 3 /\ pfx'[p].prefixlen <= 128) ]_vars

\* the longest length was stored on one prefix while the other, a member of
\* the list, has the shortest
C17_Witness ==
    /\ op.name = "sd_radv_prefix_set_prefix"
    /\ op.arg[3] = 128
    /\ ret = 0
    /\ pfx[op.arg[1]].prefixlen = 128
    /\ \E m \in Members(ra) : m # op.arg[1] /\ pfx[m].prefixlen = 3

-----------------------------------------------------------------------------
(* C18, as it is written: whenever the session is Advertising an event is  *)
(* attached.                                                               *)
C18_AdvertisingHasEvent ==
    Advertising => ra.event # NULL

(* C18, as the code has it: a session enters Advertising only with an      *)
(* event attached, and an Advertising session is without an event only     *)
(* after sd_radv_detach_event was called on it while Advertising: no other *)
(* call takes the event away.                                              *)
C18_AdvertisingHasEventUntilDetached ==
    [][ /\ (~Advertising /\ Advertising') => ra'.event # NULL
        /\ (Advertising' /\ ra'.event = NULL)
           => \/ Advertising /\ ra.event = NULL
              \/ Advertising /\ op'.name = "sd_radv_detach_event" ]_vars

\* the event was detached from an Advertising session
C18_Witness ==
    /\ Advertising
    /\ ra.event = NULL
    /\ op = Call("sd_radv_detach_event", <<>>)
    /\ ret = 0

-----------------------------------------------------------------------------
(* C19: a prefix is in the list of a live session at most once: adding a   *)
(* prefix that is a member returns -EEXIST, whatever address and length it *)
(* has by then.                                                            *)
C19_MemberAtMostOnce ==
    [][ /\ (Live /\ AddPrefixCalled /\ op'.arg[1] \in Members(ra))
           => (ret' = -EEXIST /\ ra' = ra /\ pfx' = pfx)
        /\ Live' => Cardinality(Members(ra')) = Len(ra'.prefixes) ]_vars

\* a member that overlaps no other member was added again and refused
C19_Witness ==
    /\ Live
    /\ op.name = "sd_radv_add_prefix"
    /\ ret = -EEXIST
    /\ Len(ra.prefixes) = 2
    /\ op.arg[1] = ra.prefixes[2]
    /\ ~Overlap(pfx, ra.prefixes[1], ra.prefixes[2])
    /\ pfx[op.arg[1]].prefixlen = 48

-----------------------------------------------------------------------------
(* C20: the reference count of a prefix is the number of references its    *)
(* callers hold plus one if it is in the list of the live session; a       *)
(* prefix is freed exactly when that count is 0, so no member of a live    *)
(* session is freed; and the session is live exactly while its own count   *)
(* is at least 1, a freed session having no list.                          *)
C20_ReferenceAccounting ==
    /\ \A p \in Prefixes :
          /\ pfx[p].n_ref = held[p] + (IF Live /\ p \in Members(ra) THEN 1 ELSE 0)
          /\ pfx[p].n_ref = 0 <=> pfx[p] = FreedPrefix
    /\ Live => \A m \in Members(ra) : pfx[m].n_ref >= 1 /\ pfx[m] # FreedPrefix
    /\ ra.n_ref >= 0
    /\ ra.n_ref = 0 <=> ra = FreedRadv

\* one member is kept by the list alone, the other is also held twice by
\* its caller
C20_Witness ==
    /\ Live
    /\ \E m, q \in Members(ra) :
          /\ held[m] = 0 /\ pfx[m].n_ref = 1
          /\ held[q] = 2 /\ pfx[q].n_ref = 3

====
